---- MODULE Spec2Model ----
(***************************************************************************)
(* Capture session of examples/cli: the handler `Capture` (new,            *)
(* on_frame_arrived, on_closed), the Ctrl-C thread that stores the stop    *)
(* flag, and the capture runtime that drives the handler.                  *)
(*                                                                         *)
(* Time is counted in whole seconds since an Instant was taken:            *)
(* since_start is start.elapsed(), since_reset is last_reset.elapsed().    *)
(***************************************************************************)
EXTENDS Integers, Naturals, Sequences, FiniteSets, TLC

\* ---------------------------------------------------------------- bounds
MaxElapsed == 2          \* elapsed seconds are tracked up to this value
MaxFramesPerWindow == 2  \* frames the runtime delivers before a second passes
MaxTrack == 3            \* history counters saturate here
MaxLate == 1             \* frames a best-effort stop() may still let through
MaxDim == 1              \* largest width and height of a capture target

\* ------------------------------------------------------ program constants
Window == 1              \* Duration::from_secs(1)

VARIABLES
    pc,                       \* position of the capture-runtime thread
    encoder,                  \* Capture.encoder : Option<VideoEncoder>
    stop_flag,                \* CaptureSettings.stop_flag : AtomicBool
    frame_count_since_reset,  \* Capture.frame_count_since_reset
    since_start,              \* seconds since Capture.start was taken
    since_reset,              \* seconds since Capture.last_reset was taken
    elapsed_since_reset,      \* the local of on_frame_arrived (line 80)
    stopped,                  \* capture_control.stop() has been called
    delivering,               \* the runtime still delivers events
    closed,                   \* on_closed has run
    error,                    \* the error the session ended with, or "none"
    cpc,                      \* position of the Ctrl-C thread
    \* history of the run, read by the properties only
    stopReturned,             \* a Ctrl-C handler call has returned
    finishCount,              \* calls of VideoEncoder::finish
    submitted,                \* frames accepted by send_frame
    submitsAfterStop,         \* send_frame calls begun after stopReturned
    beganAfterStop,           \* the running invocation began after stopReturned
    completedAfterStop,       \* such an invocation has returned
    lateFrames,               \* invocations delivered after stop()
    sentThis,                 \* the running invocation has submitted its frame
    earlyStop,                \* a stop was stored before any frame had arrived
    invSinceReset,            \* invocations begun since the last window reset
    \* the settings and the report
    width,                    \* CaptureSettings.width
    height,                   \* CaptureSettings.height
    reported                  \* the frame count used for the fps of line 81

vars == <<pc, encoder, stop_flag, frame_count_since_reset, since_start,
          since_reset, elapsed_since_reset, stopped, delivering, closed,
          error, cpc, stopReturned, finishCount, submitted, submitsAfterStop,
          beganAfterStop, completedAfterStop, lateFrames,
          width, height, sentThis, earlyStop, invSinceReset, reported>>

Min(a, b) == IF a < b THEN a ELSE b
Sat(n) == Min(n, MaxTrack)

Errors == {"OpenErr", "FlushErr", "SendErr", "FinishErr", "Panic"}
HandlerPcs == {"report", "submit", "check", "finish", "stop", "reset"}

\* ------------------------------------------------- decisions of the code
\* Capture::new: `VideoEncoder::new(..)?` then `encoder: Some(encoder)`
NewEncoder(openOk) == IF openOk THEN "Some" ELSE "OpenErr"

\* the error of VideoEncoder::new is dropped and the session is started
AfterNew_Continue(e) == "idle"

\* Capture::new returns `Err` through `?`, or `Ok(Self {..})`
AfterNew(e) == IF e = "OpenErr" THEN "done" ELSE "idle"

\* the stop flag is examined before the frame is sent
AfterFlush_CheckFirst(flushOk) == IF flushOk THEN "check" ELSE "FlushErr"

\* `io::stdout().flush()?`
AfterFlush(flushOk) == IF flushOk THEN "submit" ELSE "FlushErr"

\* `self.encoder.as_mut().unwrap().send_frame(frame)?`
AfterSend(enc, sendOk) ==
    IF enc = "None" THEN "Panic" ELSE IF sendOk THEN "check" ELSE "SendErr"

\* the flag is never acted upon
AfterCheck_Never(flag) == "reset"

\* the flag is acted upon, but the encoder is not finalized before stop()
AfterCheck_SkipFinish(flag) == IF flag THEN "stop" ELSE "reset"

\* the flag is acted upon only while it is still clear
AfterCheck_Inverted(flag) == IF flag THEN "reset" ELSE "finish"

\* `if self.settings.stop_flag.load(Ordering::SeqCst)`
AfterCheck(flag) == IF flag THEN "finish" ELSE "reset"

\* the encoder is borrowed instead of taken: the field keeps it
Take_Keep(enc) == enc

\* `self.encoder.take()`: the value left in the field
Take(enc) == "None"

\* capture_control.stop() is left out after a successful finish
AfterFinish_NoStop(enc, finishOk) ==
    IF enc = "None" THEN "Panic" ELSE IF finishOk THEN "reset" ELSE "FinishErr"

\* `.unwrap().finish()?`
AfterFinish(enc, finishOk) ==
    IF enc = "None" THEN "Panic" ELSE IF finishOk THEN "stop" ELSE "FinishErr"

\* the window must have lasted longer than one second
WindowElapsed_Strict(e) == e > Window

\* `if elapsed_since_reset >= Duration::from_secs(1)`
WindowElapsed(e) == e >= Window

\* the session state of the design, read off the handler's fields
SessionState ==
    IF pc = "created" THEN "Created"
    ELSE IF error # "none" THEN "Failed"
    ELSE IF stopped THEN "Stopped"
    ELSE IF pc \in {"finish", "stop"} THEN "Stopping"
    ELSE "Capturing"

TypeOK ==
    /\ pc \in {"created", "idle", "done", "panicked"} \cup HandlerPcs
    /\ encoder \in {"None", "Some"}
    /\ stop_flag \in BOOLEAN
    /\ frame_count_since_reset \in 0..(MaxFramesPerWindow + 1)
    /\ since_start \in 0..MaxElapsed
    /\ since_reset \in 0..MaxElapsed
    /\ elapsed_since_reset \in 0..MaxElapsed
    /\ stopped \in BOOLEAN /\ delivering \in BOOLEAN /\ closed \in BOOLEAN
    /\ error \in Errors \cup {"none"}
    /\ cpc \in {"idle", "stored"}
    /\ stopReturned \in BOOLEAN
    /\ finishCount \in 0..MaxTrack /\ submitted \in 0..MaxTrack
    /\ submitsAfterStop \in 0..MaxTrack
    /\ beganAfterStop \in BOOLEAN /\ completedAfterStop \in BOOLEAN
    /\ lateFrames \in 0..MaxLate
    /\ width \in 0..MaxDim
    /\ height \in 0..MaxDim
    /\ sentThis \in BOOLEAN
    /\ earlyStop \in BOOLEAN
    /\ invSinceReset \in 0..(MaxFramesPerWindow + 1)
    /\ reported \in 0..(MaxFramesPerWindow + 1)

\* main, up to the call of Capture::start: the flag is created false, the
\* Ctrl-C handler is installed and the size of the target is read into the
\* settings; no handler object exists yet.
Init ==
    /\ pc = "created"
    /\ encoder = "None"
    /\ stop_flag = FALSE
    /\ frame_count_since_reset = 0
    /\ since_start = 0 /\ since_reset = 0 /\ elapsed_since_reset = 0
    /\ stopped = FALSE /\ delivering = FALSE /\ closed = FALSE
    /\ error = "none"
    /\ cpc = "idle"
    /\ stopReturned = FALSE
    /\ finishCount = 0 /\ submitted = 0 /\ submitsAfterStop = 0
    /\ beganAfterStop = FALSE /\ completedAfterStop = FALSE
    /\ lateFrames = 0
    /\ width \in 0..MaxDim
    /\ height \in 0..MaxDim
    /\ sentThis = FALSE
    /\ earlyStop = FALSE
    /\ invSinceReset = 0
    /\ reported = 0

\* ------------------------------------------------------- Ctrl-C thread
\* the closure flips the flag instead of setting it
Stored_Toggle(flag) == ~flag

\* the value `stop_flag.store(true, Ordering::SeqCst)` leaves in the flag
Stored(flag) == TRUE

\* the closure also drops the encoder, sharing it with the capture thread
CtrlCStore_DropEncoder ==
    /\ cpc = "idle"
    /\ stop_flag' = Stored(stop_flag)
    /\ cpc' = "stored"
    /\ encoder' = "None"
    /\ UNCHANGED <<pc, frame_count_since_reset, since_start,
                   since_reset, elapsed_since_reset, stopped, delivering,
                   closed, error, stopReturned, finishCount, submitted,
                   submitsAfterStop, beganAfterStop, completedAfterStop,
                   lateFrames>>
    /\ UNCHANGED <<width, height, sentThis>>
    /\ earlyStop' = (earlyStop \/ (pc \in {"created", "idle"}
                                   /\ submitted = 0 /\ error = "none"))
    /\ UNCHANGED <<invSinceReset, reported>>

\* `stop_flag.store(true, Ordering::SeqCst)`
CtrlCStore ==
    /\ cpc = "idle"
    /\ stop_flag' = Stored(stop_flag)
    /\ cpc' = "stored"
    /\ UNCHANGED <<pc, encoder, frame_count_since_reset, since_start,
                   since_reset, elapsed_since_reset, stopped, delivering,
                   closed, error, stopReturned, finishCount, submitted,
                   submitsAfterStop, beganAfterStop, completedAfterStop,
                   lateFrames>>
    /\ UNCHANGED <<width, height, sentThis>>
    /\ earlyStop' = (earlyStop \/ (pc \in {"created", "idle"}
                                   /\ submitted = 0 /\ error = "none"))
    /\ UNCHANGED <<invSinceReset, reported>>

\* the handler closure returns
CtrlCReturn ==
    /\ cpc = "stored"
    /\ cpc' = "idle"
    /\ stopReturned' = TRUE
    /\ UNCHANGED <<pc, encoder, stop_flag, frame_count_since_reset,
                   since_start, since_reset, elapsed_since_reset, stopped,
                   delivering, closed, error, finishCount, submitted,
                   submitsAfterStop, beganAfterStop, completedAfterStop,
                   lateFrames>>
    /\ UNCHANGED <<width, height, sentThis, earlyStop, invSinceReset, reported>>

\* ------------------------------------------------------------- the clock
Tick ==
    /\ pc \notin {"created", "done", "panicked"}
    /\ since_start' = Min(since_start + 1, MaxElapsed)
    /\ since_reset' = Min(since_reset + 1, MaxElapsed)
    /\ UNCHANGED <<pc, encoder, stop_flag, frame_count_since_reset,
                   elapsed_since_reset, stopped, delivering, closed, error,
                   cpc, stopReturned, finishCount, submitted,
                   submitsAfterStop, beganAfterStop, completedAfterStop,
                   lateFrames>>
    /\ UNCHANGED <<width, height, sentThis, earlyStop, invSinceReset, reported>>

\* --------------------------------------------------- leaving a statement
\* Control leaves a statement of on_frame_arrived towards `next`: the next
\* statement, an `Err` returned by `?` (the runtime then halts and
\* Capture::start returns the error), or a panic of `unwrap`.
Leave(next) ==
    /\ pc' = IF next \in HandlerPcs THEN next
             ELSE IF next = "Panic" THEN "panicked" ELSE "idle"
    /\ error' = IF next \in HandlerPcs THEN error ELSE next
    /\ delivering' = IF next \in HandlerPcs THEN delivering ELSE FALSE
    /\ completedAfterStop' =
          IF next \in Errors \ {"Panic"}
          THEN completedAfterStop \/ beganAfterStop
          ELSE completedAfterStop

\* ------------------------------------------------------ Capture::new
New ==
    /\ pc = "created"
    /\ \E openOk \in BOOLEAN :
         LET e == NewEncoder(openOk) IN
           \* on "done" Capture::start returns the error at once
           /\ pc' = AfterNew(e)
           /\ delivering' = (AfterNew(e) = "idle")
           /\ encoder' = IF e = "OpenErr" THEN "None" ELSE e
           /\ error' = IF e = "OpenErr" THEN e ELSE error
    /\ frame_count_since_reset' = 0
    /\ since_start' = 0
    /\ since_reset' = 0
    /\ UNCHANGED <<stop_flag, elapsed_since_reset, stopped, closed, cpc,
                   stopReturned, finishCount, submitted, submitsAfterStop,
                   beganAfterStop, completedAfterStop, lateFrames>>
    /\ UNCHANGED <<width, height, sentThis, earlyStop>>
    /\ invSinceReset' = 0
    /\ UNCHANGED reported

\* ------------------------------------------- Capture::on_frame_arrived
\* the counter is assigned instead of incremented
Incr_Assign(n) == 1

\* `self.frame_count_since_reset += 1`
Incr(n) == n + 1

\* entry and `self.frame_count_since_reset += 1`
Enter ==
    /\ pc = "idle"
    /\ pc' = "report"
    /\ frame_count_since_reset' = Incr(frame_count_since_reset)
    /\ beganAfterStop' = stopReturned
    /\ UNCHANGED <<encoder, stop_flag, since_start, since_reset,
                   elapsed_since_reset, stopped, delivering, closed, error,
                   cpc, stopReturned, finishCount, submitted,
                   submitsAfterStop, completedAfterStop>>
    /\ UNCHANGED <<width, height>>
    /\ sentThis' = FALSE
    /\ UNCHANGED earlyStop
    /\ invSinceReset' = invSinceReset + 1
    /\ UNCHANGED reported

\* the runtime delivers a frame while the session is running
FrameArrived ==
    /\ delivering
    /\ frame_count_since_reset < MaxFramesPerWindow \/ since_reset >= Window
    /\ Enter
    /\ UNCHANGED lateFrames

\* `let elapsed_since_reset = self.last_reset.elapsed()`, the print and
\* `io::stdout().flush()?`
Report ==
    /\ pc = "report"
    /\ elapsed_since_reset' = since_reset
    /\ \E flushOk \in BOOLEAN : Leave(AfterFlush(flushOk))
    /\ UNCHANGED <<encoder, stop_flag, frame_count_since_reset, since_start,
                   since_reset, stopped, closed, cpc, stopReturned,
                   finishCount, submitted, submitsAfterStop,
                   beganAfterStop, lateFrames>>
    /\ UNCHANGED <<width, height, sentThis, earlyStop, invSinceReset>>
    /\ reported' = frame_count_since_reset

\* `self.encoder.as_mut().unwrap().send_frame(frame)?`
Submit ==
    /\ pc = "submit"
    /\ \E sendOk \in BOOLEAN :
         LET next == AfterSend(encoder, sendOk) IN
           /\ Leave(next)
           /\ submitted' = IF next = "check" THEN Sat(submitted + 1)
                           ELSE submitted
           /\ submitsAfterStop' =
                 IF next # "Panic" /\ stopReturned
                 THEN Sat(submitsAfterStop + 1) ELSE submitsAfterStop
    /\ UNCHANGED <<encoder, stop_flag, frame_count_since_reset, since_start,
                   since_reset, elapsed_since_reset, stopped, closed, cpc,
                   stopReturned, finishCount, beganAfterStop, lateFrames>>
    /\ UNCHANGED <<width, height>>
    /\ sentThis' = (pc' = "check")
    /\ UNCHANGED <<earlyStop, invSinceReset, reported>>

\* `if self.settings.stop_flag.load(Ordering::SeqCst)`
Check ==
    /\ pc = "check"
    /\ Leave(AfterCheck(stop_flag))
    /\ UNCHANGED <<encoder, stop_flag, frame_count_since_reset, since_start,
                   since_reset, elapsed_since_reset, stopped, closed, cpc,
                   stopReturned, finishCount, submitted, submitsAfterStop,
                   beganAfterStop, lateFrames>>
    /\ UNCHANGED <<width, height, sentThis, earlyStop, invSinceReset, reported>>

\* `self.encoder.take().unwrap().finish()?`
Finish ==
    /\ pc = "finish"
    /\ encoder' = Take(encoder)
    /\ \E finishOk \in BOOLEAN :
         LET next == AfterFinish(encoder, finishOk) IN
           /\ Leave(next)
           /\ finishCount' = IF next = "Panic" THEN finishCount
                             ELSE Sat(finishCount + 1)
    /\ UNCHANGED <<stop_flag, frame_count_since_reset, since_start,
                   since_reset, elapsed_since_reset, stopped, closed, cpc,
                   stopReturned, submitted, submitsAfterStop,
                   beganAfterStop, lateFrames>>
    /\ UNCHANGED <<width, height, sentThis, earlyStop, invSinceReset, reported>>

\* `capture_control.stop()` and the println
Stop ==
    /\ pc = "stop"
    /\ stopped' = TRUE
    /\ Leave("reset")
    /\ UNCHANGED <<encoder, stop_flag, frame_count_since_reset, since_start,
                   since_reset, elapsed_since_reset, closed, cpc,
                   stopReturned, finishCount, submitted, submitsAfterStop,
                   beganAfterStop, lateFrames>>
    /\ UNCHANGED <<width, height, sentThis, earlyStop, invSinceReset, reported>>

\* the window reset and `Ok(())`; the runtime halts when stop() was called
Reset ==
    /\ pc = "reset"
    /\ IF WindowElapsed(elapsed_since_reset)
       THEN /\ frame_count_since_reset' = 0
            /\ since_reset' = 0
       ELSE UNCHANGED <<frame_count_since_reset, since_reset>>
    /\ pc' = "idle"
    /\ delivering' = (delivering /\ ~stopped)
    /\ completedAfterStop' = (completedAfterStop \/ beganAfterStop)
    /\ UNCHANGED <<encoder, stop_flag, since_start, elapsed_since_reset,
                   stopped, closed, error, cpc, stopReturned, finishCount,
                   submitted, submitsAfterStop, beganAfterStop, lateFrames>>
    /\ UNCHANGED <<width, height, sentThis, earlyStop>>
    /\ invSinceReset' = IF frame_count_since_reset' < frame_count_since_reset
                        THEN 0 ELSE invSinceReset
    /\ UNCHANGED reported

\* ------------------------------------------------- Capture::on_closed
\* the capture item is closed: the println and `Ok(())`; the runtime halts
Closed ==
    /\ pc = "idle"
    /\ ~closed
    /\ closed' = TRUE
    /\ delivering' = FALSE
    /\ UNCHANGED <<pc, encoder, stop_flag, frame_count_since_reset,
                   since_start, since_reset, elapsed_since_reset, stopped,
                   error, cpc, stopReturned, finishCount, submitted,
                   submitsAfterStop, beganAfterStop, completedAfterStop,
                   lateFrames>>
    /\ UNCHANGED <<width, height, sentThis, earlyStop, invSinceReset, reported>>

\* ----------------------------------------------------- the runtime ends
\* Capture::start returns to start_capture once the runtime has halted
StartReturns ==
    /\ pc = "idle"
    /\ ~delivering
    /\ pc' = "done"
    /\ UNCHANGED <<encoder, stop_flag, frame_count_since_reset, since_start,
                   since_reset, elapsed_since_reset, stopped, delivering,
                   closed, error, cpc, stopReturned, finishCount, submitted,
                   submitsAfterStop, beganAfterStop, completedAfterStop,
                   lateFrames>>
    /\ UNCHANGED <<width, height, sentThis, earlyStop, invSinceReset, reported>>

\* a frame that a best-effort stop() did not hold back
LateFrame ==
    /\ ~delivering
    /\ stopped
    /\ ~closed
    /\ error = "none"
    /\ lateFrames < MaxLate
    /\ lateFrames' = lateFrames + 1
    /\ Enter

\* ------------------------------------------------------ specifications
Next ==
    \/ New
    \/ FrameArrived
    \/ Report
    \/ Submit
    \/ Check
    \/ Finish
    \/ Stop
    \/ Reset
    \/ Closed
    \/ StartReturns
    \/ CtrlCStore
    \/ CtrlCReturn
    \/ Tick

\* the runtime delivers nothing after stop(), an error or the close
Spec == Init /\ [][Next]_vars

NextBestEffort == Next \/ LateFrame

\* stop() is only a best-effort request
SpecBestEffort == Init /\ [][NextBestEffort]_vars

\* the capture thread keeps running and the runtime keeps delivering
\* frames for as long as it has not halted
SpecLive ==
    /\ Init /\ [][Next]_vars
    /\ WF_vars(New) /\ WF_vars(FrameArrived) /\ WF_vars(Report)
    /\ WF_vars(Submit) /\ WF_vars(Check) /\ WF_vars(Finish)
    /\ WF_vars(Stop) /\ WF_vars(Reset) /\ WF_vars(Tick)
    /\ WF_vars(CtrlCReturn)

\* ---------------------------------------------------------------- claims

\* C1: whatever events occur (frames, stop requests, the target closing,
\* failures of the encoder, frames let through after stop()), finish is
\* called at most once on the encoder.
FinalizeAtMostOnce == finishCount <= 1

\* the stop path has finalized, and the target has closed as well
FinalizedAndClosed == finishCount = 1 /\ stopped /\ closed

\* C2: once a stop request has returned, at most one further send_frame is
\* made, and when that invocation is over the session is no longer
\* Capturing.
AtMostOneSubmitAfterStop ==
    /\ submitsAfterStop <= 1
    /\ (submitsAfterStop = 1 /\ pc \in {"idle", "done"})
          => SessionState # "Capturing"

\* a frame was submitted after the stop request returned
SubmittedAfterStop == submitsAfterStop = 1 /\ stopReturned /\ pc = "check"

\* C3: an invocation of on_frame_arrived that began after the stop request
\* returned has, when it returns, finalized the encoder and ended the
\* delivery of frames.
StopObservedByNextFrame ==
    completedAfterStop => (finishCount = 1 /\ ~delivering)

\* C4: when send_frame fails the session finalizes the encoder and fails
\* with that error.
SubmitFailureFinalizes ==
    error = "SendErr" => (finishCount = 1 /\ encoder = "None")

\* C5: once on_closed has run, the encoder has been finalized, whether or
\* not a stop was requested.
ClosedFinalizes == closed => (finishCount = 1 /\ encoder = "None")

\* C6: capture_control.stop() is called only after the encoder has been
\* taken and finish has returned successfully.
FinalizeBeforeStop ==
    (stopped \/ pc = "stop")
        => (finishCount = 1 /\ encoder = "None" /\ error # "FinishErr")

\* stop() has been called
StopCalled == stopped /\ pc = "reset"

\* C7: in Stopped and Failed no step changes the session's fields, submits
\* or finalizes anything, or panics.
TerminalStatesIgnoreEvents ==
    [][(SessionState \in {"Stopped", "Failed"} /\ pc \in {"idle", "done"})
          => (frame_count_since_reset' = frame_count_since_reset
              /\ encoder' = encoder
              /\ submitted' = submitted
              /\ finishCount' = finishCount
              /\ pc' \in {"idle", "done"})]_vars

\* C8: with a runtime that delivers nothing after stop() or an error, the
\* encoder is present whenever on_frame_arrived is at send_frame, and the
\* unwrap never panics.
EncoderPresentAtSubmit ==
    /\ pc = "submit" => encoder = "Some"
    /\ pc # "panicked"
    /\ error # "Panic"

\* a later frame is at send_frame while a stop is pending
AtSubmitWithStopPending == pc = "submit" /\ stop_flag /\ submitted >= 1

\* C9: when VideoEncoder::new fails, Capture::start has returned the error,
\* no encoder exists, and no frame was or will be handled.
OpenFailureAbortsStart ==
    error = "OpenErr"
        => /\ pc = "done"
           /\ encoder = "None"
           /\ ~delivering
           /\ frame_count_since_reset = 0
           /\ submitted = 0
           /\ finishCount = 0

\* the sink could not be opened
OpenFailed == error = "OpenErr" /\ pc = "done"

\* C10: a requested stop leads to Stopped with the encoder finalized,
\* unless the runtime stops delivering because the target closed or a call
\* failed; the Ctrl-C handler always returns; finish is only ever called
\* from the finish statement of on_frame_arrived.
StopEventuallyFinalizes ==
    /\ stop_flag ~> ((SessionState = "Stopped" /\ finishCount = 1
                                                /\ encoder = "None")
                     \/ error # "none" \/ closed)
    /\ (cpc = "stored") ~> (cpc = "idle")
    /\ [][finishCount' # finishCount => pc = "finish"]_vars

\* the session stopped on request and Capture::start returned Ok
StoppedOnRequest ==
    /\ stop_flag /\ SessionState = "Stopped" /\ finishCount = 1
    /\ pc = "done" /\ ~closed

\* C11: the stop flag starts false, no step of either thread takes it back
\* from true to false, and it is true once a Ctrl-C handler call has stored
\* or returned, however many calls there are.
StopFlagMonotonic ==
    /\ []((pc = "created" /\ cpc = "idle" /\ ~stopReturned) => ~stop_flag)
    /\ []((stopReturned \/ cpc = "stored") => stop_flag)
    /\ [][stop_flag => stop_flag']_vars

\* a second Ctrl-C is being handled while the flag is already set
SecondStopRequest == stopReturned /\ cpc = "stored" /\ stop_flag

\* C12: when the stop path runs again on a session whose encoder was
\* already finalized, it succeeds as a no-op: no panic, no error, and finish
\* is not called a second time.
RepeatedFinalizeIsNoOp ==
    (finishCount >= 1 /\ lateFrames >= 1 /\ pc \notin {"report", "submit"})
        => (pc # "panicked" /\ error = "none" /\ finishCount = 1)

\* C13: for a target of width 0 or height 0, VideoEncoder::new is never
\* called: Capture::new is not entered, no encoder exists and the session
\* never captures.
ZeroSizeRejectedBeforeOpen ==
    (width = 0 \/ height = 0)
        => (pc = "created" /\ encoder = "None" /\ SessionState = "Created")

\* the order of the statements of on_frame_arrived
HandlerOrder ==
    {<<"idle", "report">>, <<"report", "submit">>, <<"submit", "check">>,
     <<"check", "finish">>, <<"check", "reset">>, <<"finish", "stop">>,
     <<"stop", "reset">>, <<"reset", "idle">>}

\* C14: an invocation runs increment, report, submit, flag check in this
\* order; the counter grows by exactly one at entry and by nothing until the
\* window reset; the frame is submitted once, before the flag is read, so
\* the invocation that finalizes has encoded its own frame first.
StepsInFixedOrder ==
    /\ [](pc \in {"report", "submit"} => ~sentThis)
    /\ [](pc \in {"check", "finish", "stop", "reset"} => sentThis)
    /\ [][(pc' # pc /\ pc' \in HandlerPcs) => <<pc, pc'>> \in HandlerOrder]_vars
    /\ [][(pc = "idle" /\ pc' = "report")
            => (frame_count_since_reset' = frame_count_since_reset + 1)]_vars
    /\ [][(pc \in {"report", "submit", "check", "finish", "stop"})
            => (frame_count_since_reset' = frame_count_since_reset)]_vars
    /\ [][(sentThis' /\ ~sentThis) => (pc = "submit" /\ pc' = "check")]_vars
    /\ [][finishCount' # finishCount => sentThis]_vars

\* the stop is observed by an invocation whose frame has been sent
StopObservedAfterSubmit == pc = "finish" /\ sentThis /\ stop_flag

\* C15: a step resets the frame count exactly if it resets the window
\* start; this happens only in the last statement of an invocation whose
\* measured window was at least one second, and it does happen in every
\* such invocation that gets there.
WindowResetsTogether ==
    /\ [][(frame_count_since_reset' < frame_count_since_reset)
            <=> (since_reset' < since_reset)]_vars
    /\ [][(frame_count_since_reset' < frame_count_since_reset)
            => (pc = "reset" /\ pc' = "idle"
                /\ elapsed_since_reset >= Window
                /\ frame_count_since_reset' = 0 /\ since_reset' = 0)]_vars
    /\ [][(pc = "reset" /\ pc' = "idle" /\ elapsed_since_reset >= Window)
            => (frame_count_since_reset' = 0 /\ since_reset' = 0)]_vars

\* an invocation has just reset the window
WindowJustReset ==
    /\ pc = "idle" /\ frame_count_since_reset = 0 /\ since_reset = 0
    /\ elapsed_since_reset >= Window /\ sentThis

\* C18: finish is called only from the finish statement of an invocation
\* that has already submitted its own frame, so a finalized encoder has
\* received at least one frame; when the stop was stored before the first
\* frame arrived, the encoder is still opened and exactly one frame is
\* encoded before finalization.
FinalizedContainerHasFrame ==
    /\ [](finishCount >= 1 => submitted >= 1)
    /\ [](pc = "finish" => (sentThis /\ encoder = "Some"))
    /\ [][finishCount' # finishCount => (pc = "finish" /\ sentThis)]_vars
    /\ []((earlyStop /\ finishCount >= 1) => submitted = 1)

\* a stop stored before the first frame, and the encoder finalized
EarlyStopFinalized ==
    earlyStop /\ finishCount = 1 /\ submitted = 1 /\ stopped

\* C19: the frame count used for the fps is the number of invocations begun
\* since the last window reset (or since the start), the running one
\* included, hence at least 1; the invocation that resets the window was
\* counted in the window it closes; after a reset the count is 0 and the
\* next invocation reports 1.
ReportedCountIsWindowInvocations ==
    /\ [](frame_count_since_reset = invSinceReset)
    /\ [](pc \in {"submit", "check", "finish", "stop", "reset"}
            => (reported = invSinceReset /\ reported >= 1))
    /\ [][(frame_count_since_reset' < frame_count_since_reset)
            => (reported = frame_count_since_reset /\ reported >= 1
                /\ frame_count_since_reset' = 0)]_vars
    /\ [][(pc = "report" /\ pc' = "submit" /\ invSinceReset = 1)
            => (reported' = 1)]_vars

\* the second frame of a window that followed a reset has been reported
SecondFrameReported ==
    pc = "submit" /\ reported = 2 /\ since_reset < since_start

\* C16: a step of the Ctrl-C thread changes nothing but the flag (and its
\* own position); the flag is written by no step of the capture thread; the
\* encoder is written only by Capture::new and by the finish statement of
\* on_frame_arrived; on_closed runs only between invocations.
OnlyStopFlagShared ==
    /\ [][(cpc' # cpc)
            => UNCHANGED <<pc, encoder, frame_count_since_reset, since_start,
                           since_reset, elapsed_since_reset, reported,
                           stopped, delivering, closed, error, finishCount,
                           submitted, width, height>>]_vars
    /\ [][(stop_flag' # stop_flag) => (cpc' # cpc /\ pc' = pc)]_vars
    /\ [][(encoder' # encoder)
            => (cpc' = cpc /\ pc \in {"created", "finish"})]_vars
    /\ [][(closed' # closed) => (pc = "idle" /\ pc' = "idle")]_vars

\* the flag is stored while an invocation is between send_frame and the load
StoreDuringInvocation ==
    cpc = "stored" /\ ~stopReturned /\ pc = "check" /\ encoder = "Some"

\* C17: after finish has failed the encoder is gone, stop() was not called,
\* the window was not reset, the error is what the invocation returned, and
\* finish is not called again.
FinishFailureConsumesEncoder ==
    /\ [](error = "FinishErr"
            => (encoder = "None" /\ ~stopped /\ finishCount = 1
                /\ ~delivering /\ pc \in {"idle", "done"}
                /\ frame_count_since_reset >= 1
                /\ frame_count_since_reset = invSinceReset))
    /\ [][(error = "FinishErr")
            => (finishCount' = finishCount /\ encoder' = encoder
                /\ frame_count_since_reset' = frame_count_since_reset
                /\ since_reset' >= since_reset)]_vars
    /\ [][(error' = "FinishErr" /\ error # "FinishErr")
            => (pc = "finish" /\ pc' = "idle" /\ since_reset' = since_reset
                /\ frame_count_since_reset' = frame_count_since_reset)]_vars

\* finish failed in a window that had lasted a second
FinishFailedAfterWindow ==
    error = "FinishErr" /\ elapsed_since_reset >= Window /\ pc = "done"
====
